---- MODULE Spec2Model ----
(***************************************************************************)
(* jQuery.ellipterrific: the per-element callback of $.fn.ellipterrific,   *)
(* its binary search index_for_best_fit and the overflow test              *)
(* are_words_fitting_in_element, as a state machine.                       *)
(*                                                                         *)
(* A string is a sequence of one-character strings.  The alphabet holds no *)
(* markup characters, so the string handed to .html() is the text that     *)
(* .text() reads back.  "." stands for the ellipsis character.             *)
(* A JavaScript value that may be undefined or null is a sequence: <<>>    *)
(* when it is undefined or null, <<v>> when it is v.                       *)
(***************************************************************************)
EXTENDS Integers, Sequences, FiniteSets

VARIABLES
    text,                        \* the element's text, $(element).text()
    css_overflow,                \* the element's CSS overflow property
    data_original_text,          \* $selected_elm.data("original text")
    ellipsis_string,             \* configured_options.ellipsis_string
    split_on_words,              \* configured_options.split_on_words
    overflowing,                 \* the texts that overflow the element as it is sized now
    pc,                          \* position of the per-element callback
    initial_text,                \* callback local
    text_words,                  \* callback local: null or an array of strings
    index_of_maximal_text_fill,  \* callback local: undefined or the search's result
    guess, low_bound, high_bound,\* arguments of the current index_for_best_fit call
    calls,                       \* index_for_best_fit calls made by this callback
    evals,                       \* are_words_fitting_in_element calls made by this callback
    tested,                      \* the prefix lengths those calls tested
    previous_fill                \* index_of_maximal_text_fill of the callback before this one

vars == <<text, css_overflow, data_original_text, ellipsis_string, split_on_words,
          overflowing, pc, initial_text, text_words, index_of_maximal_text_fill,
          guess, low_bound, high_bound, calls, evals, tested, previous_fill>>

(* Bounds of the model *)
MaxLen == 6

Chars == {"a", " "}
Markers == {<<".">>, <<>>}
Texts == UNION {[1..k -> Chars] : k \in 0..MaxLen}

Null == <<>>
Some(v) == <<v>>
Val(x) == x[1]

(* ------------------------------------------------------------------ *)
(* String and array primitives                                        *)
(* ------------------------------------------------------------------ *)
IsSpace(c) == c = " "

RECURSIVE TrimLeft(_)
TrimLeft(s) ==
    IF Len(s) > 0 /\ IsSpace(s[1]) THEN TrimLeft(SubSeq(s, 2, Len(s))) ELSE s

RECURSIVE TrimRight(_)
TrimRight(s) ==
    IF Len(s) > 0 /\ IsSpace(s[Len(s)]) THEN TrimRight(SubSeq(s, 1, Len(s) - 1)) ELSE s

\* $.trim
trim(s) == TrimRight(TrimLeft(s))

\* the maximal runs of non-whitespace characters of s, in order
RECURSIVE Runs(_, _)
Runs(s, cur) ==
    IF Len(s) = 0 THEN (IF Len(cur) = 0 THEN <<>> ELSE <<cur>>)
    ELSE IF IsSpace(s[1])
         THEN (IF Len(cur) = 0 THEN <<>> ELSE <<cur>>) \o Runs(SubSeq(s, 2, Len(s)), <<>>)
         ELSE Runs(SubSeq(s, 2, Len(s)), Append(cur, s[1]))

\* s.match(/[\S]+/g): null when nothing matches
match(s) == LET r == Runs(s, <<>>) IN IF Len(r) = 0 THEN Null ELSE Some(r)

\* s.split("")
split(s) == [i \in 1..Len(s) |-> <<s[i]>>]

\* words.slice(0, end)
slice(words, end) ==
    SubSeq(words, 1, IF end > Len(words) THEN Len(words) ELSE end)

\* words.join(sep)
RECURSIVE join(_, _)
join(words, sep) ==
    IF Len(words) = 0 THEN <<>>
    ELSE IF Len(words) = 1 THEN words[1]
    ELSE words[1] \o sep \o join(SubSeq(words, 2, Len(words)), sep)

\* the text the overflow test draws in the element
candidate_text(words) ==
    IF split_on_words
    THEN join(words, <<" ">>) \o ellipsis_string
    ELSE trim(join(words, <<>>)) \o ellipsis_string

\* returns are_words_overflowing; the element's text is restored before it returns
are_words_fitting_in_element(words) == candidate_text(words) \in overflowing

\* a bug: the words of a word-mode prefix are written without their separator
truncated_text_unseparated(words) == trim(join(words, <<>>)) \o ellipsis_string

\* the text the callback writes for the chosen prefix
truncated_text(words) ==
    IF split_on_words
    THEN join(words, <<" ">>) \o ellipsis_string
    ELSE trim(join(words, <<>>)) \o ellipsis_string

\* text_words of the callback for element text t
tokenize(t) ==
    IF split_on_words THEN match(trim(t)) ELSE Some(split(trim(t)))

\* (! text_words.length) is a boolean, and a boolean === 0 is false for every length
not_length_is_zero(tw) == FALSE

\* the callback's early return
skip_element(tw) == tw = Null \/ not_length_is_zero(tw)

(* ------------------------------------------------------------------ *)
(* The state machine                                                  *)
(* ------------------------------------------------------------------ *)
Init ==
    /\ text \in Texts
    /\ css_overflow \in {"hidden", "visible"}
    /\ data_original_text = Null
    /\ ellipsis_string \in Markers
    /\ split_on_words \in BOOLEAN
    /\ overflowing = {}
    /\ pc = "idle"
    /\ initial_text = <<>>
    /\ text_words = Null
    /\ index_of_maximal_text_fill = Null
    /\ guess = Null
    /\ low_bound = 0
    /\ high_bound = 0
    /\ calls = 0
    /\ evals = 0
    /\ tested = {}
    /\ previous_fill = Null

Options == <<ellipsis_string, split_on_words>>

\* entry of the per-element callback: its locals
Enter ==
    /\ pc \in {"idle", "done"}
    /\ initial_text' = text
    /\ text_words' = tokenize(text)
    /\ index_of_maximal_text_fill' = Null
    /\ previous_fill' = index_of_maximal_text_fill
    /\ evals' = 0
    /\ tested' = {}
    /\ UNCHANGED <<text, data_original_text, Options>>

\* no words: log and return
Callback_Skip ==
    /\ Enter
    /\ skip_element(text_words')
    /\ pc' = "done"
    /\ calls' = 0
    /\ UNCHANGED <<css_overflow, overflowing, guess, low_bound, high_bound>>

\* overflow is not hidden: nothing to do
Callback_NotHidden ==
    /\ Enter
    /\ ~skip_element(text_words')
    /\ css_overflow # "hidden"
    /\ pc' = "done"
    /\ calls' = 0
    /\ UNCHANGED <<css_overflow, overflowing, guess, low_bound, high_bound>>

\* low_bound when the caller passes none
default_low_bound == 0

\* a bug: the default high bound is the length, one past the last index
default_high_bound_length(words) == Len(words)

\* high_bound when the caller passes none
default_high_bound(words) == Len(words) - 1

\* index_for_best_fit(selected_elm, text_words): the bounds take their defaults.
\* The element's size is whatever it is at this invocation: any set of the
\* candidate texts may overflow it.
Callback_Search ==
    /\ Enter
    /\ ~skip_element(text_words')
    /\ css_overflow = "hidden"
    /\ css_overflow' = "visible"
    /\ LET words == Val(text_words') IN
        /\ overflowing' \in SUBSET {candidate_text(slice(words, j)) : j \in 0..Len(words)}
        /\ guess' = Null
        /\ low_bound' = default_low_bound
        /\ high_bound' = default_high_bound(words)
    /\ calls' = 1
    /\ pc' = "search"

Words == Val(text_words)

\* a bug: the search steps down from the top of the window instead of halving it
mid_top == high_bound

\* Math.ceil(low_bound + (high_bound - low_bound) / 2)
mid == low_bound + ((high_bound - low_bound + 1) \div 2)

\* a bug: every call compares its own midpoint with 0
current_guess_own_mid == mid

\* guess, after its default: recursive calls are passed the caller's mid
current_guess == IF guess = Null THEN mid ELSE Val(guess)

\* a bug: the window counts as empty one step late
window_is_empty_late == high_bound < low_bound - 1

window_is_empty == high_bound < low_bound

is_midpoint_overflowing == are_words_fitting_in_element(slice(Words, mid))
is_above_midpoint_overflowing == are_words_fitting_in_element(slice(Words, mid + 1))

\* a bug: the search never stops at a boundary
branch_no_boundary(m_over, above_over) == IF m_over THEN "below" ELSE "above"

\* which way the search goes after the two tests
branch(m_over, above_over) ==
    IF m_over THEN "below"
    ELSE IF ~m_over /\ ~above_over THEN "above"
    ELSE "found"

SearchLocals == <<text, css_overflow, data_original_text, Options, overflowing,
                  initial_text, text_words, previous_fill>>

Return(v) ==
    /\ index_of_maximal_text_fill' = Some(v)
    /\ pc' = "returned"
    /\ UNCHANGED <<guess, low_bound, high_bound, calls>>

Measure ==
    /\ evals' = evals + 2
    /\ tested' = tested \cup {mid, mid + 1}

Search_Exhausted ==
    /\ pc = "search"
    /\ window_is_empty
    /\ Return(-1)
    /\ UNCHANGED <<SearchLocals, evals, tested>>

Search_GuessZero ==
    /\ pc = "search"
    /\ ~window_is_empty
    /\ current_guess = 0
    /\ Return(0)
    /\ UNCHANGED <<SearchLocals, evals, tested>>

Search_Below ==
    /\ pc = "search"
    /\ ~window_is_empty
    /\ current_guess # 0
    /\ branch(is_midpoint_overflowing, is_above_midpoint_overflowing) = "below"
    /\ Measure
    /\ guess' = Some(mid)
    /\ low_bound' = low_bound
    /\ high_bound' = mid - 1
    /\ calls' = calls + 1
    /\ UNCHANGED <<SearchLocals, pc, index_of_maximal_text_fill>>

Search_Above ==
    /\ pc = "search"
    /\ ~window_is_empty
    /\ current_guess # 0
    /\ branch(is_midpoint_overflowing, is_above_midpoint_overflowing) = "above"
    /\ Measure
    /\ guess' = Some(mid)
    /\ low_bound' = mid + 1
    /\ high_bound' = high_bound
    /\ calls' = calls + 1
    /\ UNCHANGED <<SearchLocals, pc, index_of_maximal_text_fill>>

Search_Found ==
    /\ pc = "search"
    /\ ~window_is_empty
    /\ current_guess # 0
    /\ branch(is_midpoint_overflowing, is_above_midpoint_overflowing) = "found"
    /\ Measure
    /\ Return(mid)
    /\ UNCHANGED SearchLocals

Fill == Val(index_of_maximal_text_fill)

AfterSearch == <<Options, overflowing, initial_text, text_words, index_of_maximal_text_fill,
                 guess, low_bound, high_bound, calls, evals, tested, previous_fill>>

\* a valid index: write the prefix and the ellipsis, keep the original text as data
Callback_Write ==
    /\ pc = "returned"
    /\ Fill > -1
    /\ text' = truncated_text(slice(Words, Fill))
    /\ data_original_text' = Some(initial_text)
    /\ css_overflow' = "hidden"
    /\ pc' = "done"
    /\ UNCHANGED AfterSearch

\* no valid index: the element keeps its text
Callback_Keep ==
    /\ pc = "returned"
    /\ ~(Fill > -1)
    /\ css_overflow' = "hidden"
    /\ pc' = "done"
    /\ UNCHANGED <<text, data_original_text, AfterSearch>>

Next ==
    \/ Callback_Skip
    \/ Callback_NotHidden
    \/ Callback_Search
    \/ Search_Exhausted
    \/ Search_GuessZero
    \/ Search_Below
    \/ Search_Above
    \/ Search_Found
    \/ Callback_Write
    \/ Callback_Keep

Spec == Init /\ [][Next]_vars

(* ------------------------------------------------------------------ *)
(* Vocabulary of the properties                                       *)
(* ------------------------------------------------------------------ *)
\* number of tokens of the current callback
N == Len(Words)

\* the oracle's verdict on the prefix of j tokens (with the marker appended)
Overflows(j) == are_words_fitting_in_element(slice(Words, j))

\* once a prefix overflows, every longer prefix overflows
Monotonic == \A i, j \in 0..N : (i < j /\ Overflows(i)) => Overflows(j)

\* the search has returned v
Returned == pc = "returned"

\* a returned prefix length, the sentinel standing for the full length
Counted == IF Fill = -1 THEN N ELSE Fill

RECURSIVE CeilLog2From(_, _, _)
CeilLog2From(n, c, p) == IF p >= n THEN c ELSE CeilLog2From(n, c + 1, 2 * p)

\* ceil(log2(n)) for n >= 1
CeilLog2(n) == CeilLog2From(n, 0, 1)

\* text without its last Len(ellipsis_string) characters, and those characters
Body == SubSeq(text, 1, Len(text) - Len(ellipsis_string))
Tail_ == SubSeq(text, Len(text) - Len(ellipsis_string) + 1, Len(text))

RECURSIVE TotalLen(_)
TotalLen(words) == IF Len(words) = 0 THEN 0 ELSE Len(words[1]) + TotalLen(Tail(words))

\* a step that returns 0 without an oracle evaluation
ReturnsZeroUntested ==
    /\ pc' = "returned"
    /\ index_of_maximal_text_fill' = Some(0)
    /\ evals' = evals

\* the window of a call lies within the token array
WindowInRange ==
    pc = "search" =>
        (0 <= low_bound /\ low_bound <= high_bound + 1 /\ high_bound + 1 <= N)

\* a recursive call narrows its caller's window
WindowShrinks ==
    (pc = "search" /\ pc' = "search") =>
        /\ low_bound' >= low_bound
        /\ high_bound' <= high_bound
        /\ high_bound' - low_bound' < high_bound - low_bound

(* ------------------------------------------------------------------ *)
(* C1  Exactness under monotonicity: with n >= 1 tokens and a         *)
(* monotonic oracle, the result k of the search is the sentinel, or   *)
(* prefix k does not overflow and prefix k+1 overflows.               *)
(* ------------------------------------------------------------------ *)
C1_Exactness ==
    (Returned /\ N >= 1 /\ Monotonic) =>
        (Fill = -1 \/ (~Overflows(Fill) /\ Overflows(Fill + 1)))

(* ------------------------------------------------------------------ *)
(* C2  No-op on fit: with n >= 1 tokens, if the full text with the    *)
(* marker appended does not overflow, the text left in the element    *)
(* after the operation is the original text.                          *)
(* ------------------------------------------------------------------ *)
C2_NoOpOnFit ==
    (pc = "done" /\ calls >= 1 /\ N >= 1 /\ ~Overflows(N)) => text = initial_text

(* ------------------------------------------------------------------ *)
(* C3  Marker always appended on truncation: when the search returns  *)
(* a non-sentinel k, the text written is the first k tokens, joined   *)
(* with single spaces (word mode) or concatenated and trimmed         *)
(* (character mode), followed by the marker; for k = 0 it is the      *)
(* marker alone.  Stated on the written text itself: it ends with the *)
(* marker; in word mode what precedes the marker splits back into     *)
(* exactly the first k tokens and has one character between tokens;   *)
(* in character mode it is the trimmed first k characters of the      *)
(* trimmed original text.                                             *)
(* ------------------------------------------------------------------ *)
C3_MarkerAppended ==
    (pc = "done" /\ index_of_maximal_text_fill # Null /\ Fill > -1) =>
        /\ Len(text) >= Len(ellipsis_string)
        /\ Tail_ = ellipsis_string
        /\ Fill = 0 => text = ellipsis_string
        /\ split_on_words =>
              /\ Runs(Body, <<>>) = SubSeq(Words, 1, Fill)
              /\ Len(Body) = TotalLen(SubSeq(Words, 1, Fill)) + (IF Fill > 0 THEN Fill - 1 ELSE 0)
        /\ ~split_on_words =>
              Body = trim(SubSeq(trim(initial_text), 1, Fill))

C3_Witness ==
    /\ pc = "done"
    /\ index_of_maximal_text_fill # Null
    /\ Fill >= 2
    /\ Fill < N
    /\ split_on_words
    /\ ellipsis_string # <<>>
    /\ text # initial_text

(* ------------------------------------------------------------------ *)
(* C4  No-op on empty input: for empty or whitespace-only text, in    *)
(* both modes, the element's text stays the input and the overflow    *)
(* oracle is never evaluated.                                         *)
(* ------------------------------------------------------------------ *)
C4_NoOpOnEmpty ==
    (pc # "idle" /\ Len(trim(initial_text)) = 0) => (text = initial_text /\ evals = 0)

C4_Witness ==
    /\ pc = "done"
    /\ Len(initial_text) > 0
    /\ Len(trim(initial_text)) = 0
    /\ ~split_on_words
    /\ calls = 1
    /\ ellipsis_string # <<>>

(* ------------------------------------------------------------------ *)
(* C5  Idempotence: after a fit that returned k and wrote T, running  *)
(* the search again on T against an oracle that reports no overflow   *)
(* returns a prefix length >= k, the sentinel counting as the full    *)
(* length of T's token sequence.                                      *)
(* ------------------------------------------------------------------ *)
C5_Idempotence ==
    (Returned /\ previous_fill # Null /\ Val(previous_fill) > -1 /\ overflowing = {}) =>
        Counted >= Val(previous_fill)

(* ------------------------------------------------------------------ *)
(* C6  Oracle call bound: for n >= 1 tokens and any oracle, a search  *)
(* makes at most 2 * ceil(log2(n)) + 2 oracle evaluations, two per    *)
(* call that reaches the overflow test.                               *)
(* ------------------------------------------------------------------ *)
C6_OracleCallBound ==
    (calls >= 1 /\ N >= 1) =>
        /\ evals <= 2 * CeilLog2(N) + 2
        /\ evals <= 2 * calls

C6_Witness ==
    /\ Returned
    /\ N >= 4
    /\ evals = 2 * CeilLog2(N) + 2

(* ------------------------------------------------------------------ *)
(* C7  Meaning of the sentinel, as claimed: under a monotonic oracle  *)
(* the search returns the sentinel only when no tested prefix         *)
(* overflowed, that is when the full text fits.                       *)
(* ------------------------------------------------------------------ *)
C7_SentinelMeansFits ==
    (Returned /\ Fill = -1 /\ Monotonic) =>
        /\ \A j \in tested : ~Overflows(j)
        /\ N >= 1 => ~Overflows(N)

(* ------------------------------------------------------------------ *)
(* C7 amended: under a monotonic oracle the search returns the        *)
(* sentinel only when the tested prefixes all got the same verdict:   *)
(* none overflowed, and then the full text was tested and fits, or    *)
(* all overflowed, the bare marker (prefix 0) among them.             *)
(* ------------------------------------------------------------------ *)
C7_SentinelMeansUnanimous ==
    (Returned /\ Fill = -1 /\ Monotonic) =>
        \/ /\ \A j \in tested : ~Overflows(j)
           /\ N >= 1 => (N \in tested /\ ~Overflows(N))
        \/ /\ \A j \in tested : Overflows(j)
           /\ 0 \in tested

C7_Witness ==
    /\ Returned
    /\ Fill = -1
    /\ Monotonic
    /\ 0 \in tested
    /\ Overflows(0)

(* ------------------------------------------------------------------ *)
(* C8  Early return at mid = 0, as claimed: every call with a         *)
(* non-empty window and mid = 0 returns 0 without evaluating the      *)
(* oracle.                                                            *)
(* ------------------------------------------------------------------ *)
C8_EarlyReturnAtMidZero ==
    [][(pc = "search" /\ ~window_is_empty /\ mid = 0) => ReturnsZeroUntested]_vars

(* ------------------------------------------------------------------ *)
(* C8 amended: the initial call with mid = 0 returns 0 without        *)
(* evaluating the oracle; a recursive call with mid = 0 evaluates the *)
(* oracle on prefixes 0 and 1 and goes by the verdicts.               *)
(* ------------------------------------------------------------------ *)
C8_EarlyReturnInitialCallOnly ==
    [][(pc = "search" /\ ~window_is_empty /\ mid = 0) =>
          IF guess = Null
          THEN ReturnsZeroUntested
          ELSE /\ evals' = evals + 2
               /\ {0, 1} \subseteq tested'
               /\ Overflows(0) => (pc' = "search" /\ high_bound' < low_bound')
               /\ (~Overflows(0) /\ Overflows(1)) => (pc' = "returned" /\ index_of_maximal_text_fill' = Some(0))
      ]_vars

C8_Witness ==
    /\ Returned
    /\ N = 1
    /\ Fill = 0
    /\ evals = 0
    /\ calls = 1

(* ------------------------------------------------------------------ *)
(* C9  Search window invariant: in every call 0 <= low <= high + 1    *)
(* <= len(tokens), and a recursive call's window lies strictly inside *)
(* its caller's.                                                      *)
(* ------------------------------------------------------------------ *)
C9_WindowInvariant == []WindowInRange /\ [][WindowShrinks]_vars

C9_Witness ==
    /\ pc = "search"
    /\ calls >= 3
    /\ low_bound > 0
    /\ high_bound < N - 1
    /\ ~window_is_empty

(* ------------------------------------------------------------------ *)
(* C10  The search is never invoked on an empty token sequence.       *)
(* ------------------------------------------------------------------ *)
C10_NeverSearchEmpty == pc = "search" => N >= 1
====
